---- MODULE Spec2Model ----
(***************************************************************************)
(* Portfolio tracker (src/portfolio.js): the ledger replay                 *)
(* (computeHoldings, computeCash) and the application's asynchronous       *)
(* handlers (render, fetchQuotes, the timer, the click handlers).          *)
(*                                                                         *)
(* Numbers.  A JavaScript Number is modelled as an exact rational          *)
(* n/d * 10^(-9e): rounding of IEEE doubles is not modelled, every         *)
(* equality below is an equality of exact values.  The exponent e lets a   *)
(* quantity below the 1e-9 tolerance of line 86 be written with small      *)
(* integers (TLC's integers have 32 bits).                                 *)
(*                                                                         *)
(* Handlers.  JavaScript runs a handler without interruption from one      *)
(* await to the next: a step of the model is the code between two awaits   *)
(* of one invocation, and tasks holds the invocations suspended at an      *)
(* await with their locals.  An IndexedDB request takes effect when it is  *)
(* issued (requests on a store are served in order); its await resumes in  *)
(* a later step.  The clock is read where the code reads it and does not   *)
(* go back.  The provider answers a symbol the same way during one run.    *)
(* The interval timer and the clicks may come at any moment: the length    *)
(* of the refresh interval and of the throttle delay is not modelled.      *)
(***************************************************************************)
EXTENDS Integers, Sequences, FiniteSets, TLC

(* ------------------------------------------------------------------ *)
(* Numbers                                                            *)
(* ------------------------------------------------------------------ *)

\* 1e9: the tolerance of line 86 is 1/TolDen
TolDen == 1000000000

RECURSIVE GCD(_, _)
GCD(a, b) == IF b = 0 THEN a ELSE GCD(b, a % b)

IAbs(x) == IF x < 0 THEN -x ELSE x

Zero == [n |-> 0, d |-> 1, e |-> 0]

\* the number n/d * 10^(-9e), d > 0, in lowest terms
Norm(n, d, e) ==
  IF n = 0 THEN Zero
  ELSE LET g == GCD(IAbs(n), d) IN [n |-> n \div g, d |-> d \div g, e |-> e]

Int2R(k) == Norm(k, 1, 0)
Frac(n, d) == Norm(n, d, 0)
\* n/d * 1e-9
Nano(n, d) == Norm(n, d, 1)

RECURSIVE PowTol(_)
PowTol(k) == IF k = 0 THEN 1 ELSE TolDen * PowTol(k - 1)

\* the same value written with the smaller exponent e
Rescale(a, e) == IF a.n = 0 \/ a.e = e THEN a ELSE Norm(a.n, a.d * PowTol(a.e - e), e)

RNeg(a) == [a EXCEPT !.n = -a.n]

RAdd(a, b) ==
  IF a.n = 0 THEN b
  ELSE IF b.n = 0 THEN a
  ELSE LET e == IF a.e < b.e THEN a.e ELSE b.e
           x == Rescale(a, e)
           y == Rescale(b, e)
           l == (x.d \div GCD(x.d, y.d)) * y.d
       IN  Norm(x.n * (l \div x.d) + y.n * (l \div y.d), l, e)

RSub(a, b) == RAdd(a, RNeg(b))

RMul(a, b) ==
  IF a.n = 0 \/ b.n = 0 THEN Zero
  ELSE LET g1 == GCD(IAbs(a.n), b.d)
           g2 == GCD(IAbs(b.n), a.d)
       IN  [n |-> (a.n \div g1) * (b.n \div g2),
            d |-> (a.d \div g2) * (b.d \div g1),
            e |-> a.e + b.e]

\* a / b for b # 0
RDiv(a, b) ==
  RMul(a, [n |-> IF b.n < 0 THEN -b.d ELSE b.d, d |-> IAbs(b.n), e |-> -b.e])

RSign(a) == IF a.n < 0 THEN -1 ELSE IF a.n > 0 THEN 1 ELSE 0

RECURSIVE DivTol(_, _)
DivTol(x, k) == IF k = 0 THEN x ELSE DivTol(x \div TolDen, k - 1)

\* a < b for a, b > 0, without multiplying by a power of 1e9
PosLt(a, b) ==
  IF a.e = b.e THEN a.n * b.d < b.n * a.d
  ELSE IF a.e < b.e
       THEN a.n * b.d <= DivTol(b.n * a.d - 1, b.e - a.e)
       ELSE ~ (b.n * a.d <= DivTol(a.n * b.d, a.e - b.e))

RLt(a, b) ==
  IF RSign(a) # RSign(b) THEN RSign(a) < RSign(b)
  ELSE IF RSign(a) = 0 THEN FALSE
  ELSE IF RSign(a) > 0 THEN PosLt(a, b)
  ELSE PosLt(RNeg(b), RNeg(a))

\* not-a-number: the quotient 0/0, parseFloat of an empty field
NaN == [n |-> 0, d |-> 0, e |-> 0]
\* null
Null == [n |-> 1, d |-> 0, e |-> 0]
\* a number that is neither 0 nor NaN: !x is false
Truthy(x) == x # Zero /\ x # NaN /\ x # Null

RLe(a, b) == ~ RLt(b, a)
RAbs(a) == IF a.n < 0 THEN RNeg(a) ELSE a
\* Math.min
RMin(a, b) == IF RLt(b, a) THEN b ELSE a

(* ------------------------------------------------------------------ *)
(* Portfolio engine: computeHoldings, computeCash                     *)
(* ------------------------------------------------------------------ *)

\* String.prototype.toUpperCase on the symbols of the model
Upper(s) == IF s = "aaa" THEN "AAA" ELSE s

\* mutant: a sort that puts a transaction before those of its own date
RECURSIVE InsertAscUnstable(_, _)
InsertAscUnstable(s, t) ==
  IF s = <<>> THEN <<t>>
  ELSE IF s[Len(s)].date < t.date THEN Append(s, t)
  ELSE Append(InsertAscUnstable(SubSeq(s, 1, Len(s) - 1), t), s[Len(s)])

\* Array.prototype.sort with (a,b) => date(a) - date(b): a stable ascending sort
RECURSIVE InsertAsc(_, _)
InsertAsc(s, t) ==
  IF s = <<>> THEN <<t>>
  ELSE IF s[Len(s)].date <= t.date THEN Append(s, t)
  ELSE Append(InsertAsc(SubSeq(s, 1, Len(s) - 1), t), s[Len(s)])

RECURSIVE SortAsc(_)
SortAsc(s) ==
  IF s = <<>> THEN <<>>
  ELSE InsertAsc(SortAsc(SubSeq(s, 1, Len(s) - 1)), s[Len(s)])

\* lots is the object of line 70: its entries in insertion order
HasLot(ls, s) == \E k \in 1..Len(ls) : ls[k].symbol = s
LotIndex(ls, s) == CHOOSE k \in 1..Len(ls) : ls[k].symbol = s

\* lots[s] = lots[s] || { qty:0, cost:0 }
EnsureLot(ls, s) ==
  IF HasLot(ls, s) THEN ls ELSE Append(ls, [symbol |-> s, qty |-> Zero, cost |-> Zero])

\* 1e-9
Tolerance == Nano(1, 1)

\* lots[s].qty += sign * t.qty
NextQty(qtyBefore, t) ==
  IF t.side = "BUY" THEN RAdd(qtyBefore, t.qty) ELSE RSub(qtyBefore, t.qty)

\* mutant: = instead of +=
BuyCostOverwrite(cost, t) == RMul(t.qty, t.price)

\* lots[s].cost += t.qty * price
BuyCost(cost, t) == RAdd(cost, RMul(t.qty, t.price))

\* avg = qtyBefore>0 ? (lots[s].cost/qtyBefore) : 0
AvgBefore(cost, qtyBefore) ==
  IF RLt(Zero, qtyBefore) THEN RDiv(cost, qtyBefore) ELSE Zero

\* mutant: the sold quantity is not capped by the quantity held
SellCostUncapped(cost, qtyBefore, t) ==
  RSub(cost, RMul(t.qty, AvgBefore(cost, qtyBefore)))

\* mutant: the cost basis is reduced by the proceeds of the sale
SellCostAtPrice(cost, qtyBefore, t) ==
  RSub(cost, RMul(RMin(qtyBefore, t.qty), t.price))

\* lots[s].cost -= Math.min(qtyBefore, t.qty) * avg
SellCost(cost, qtyBefore, t) ==
  RSub(cost, RMul(RMin(qtyBefore, t.qty), AvgBefore(cost, qtyBefore)))

\* if (Math.abs(lots[s].qty) < 1e-9) { lots[s].qty=0; lots[s].cost=0; }
Snap(l) ==
  IF RLt(RAbs(l.qty), Tolerance) THEN [l EXCEPT !.qty = Zero, !.cost = Zero] ELSE l

\* the body of the loop for the entry of t's symbol
ApplyTx(l, t) ==
  Snap([symbol |-> l.symbol,
        qty    |-> NextQty(l.qty, t),
        cost   |-> IF t.side = "BUY" THEN BuyCost(l.cost, t)
                   ELSE SellCost(l.cost, l.qty, t)])

\* one iteration of the loop of lines 72-87
FoldStep(ls, t) ==
  LET s  == Upper(t.symbol)
      l1 == EnsureLot(ls, s)
      k  == LotIndex(l1, s)
  IN  [l1 EXCEPT ![k] = ApplyTx(l1[k], t)]

RECURSIVE FoldAll(_, _)
FoldAll(ls, txs) ==
  IF txs = <<>> THEN ls ELSE FoldAll(FoldStep(ls, Head(txs)), Tail(txs))

\* mutant: the filter written v.qty >= 0
HeldOrZero(l) == RLe(Zero, l.qty)

\* .filter(([_,v])=> v.qty>0)
Held(l) == RLt(Zero, l.qty)

\* mutant: the total cost of the entry given as its average cost
ToHoldingTotalCost(l) ==
  [symbol |-> l.symbol, qty |-> l.qty, avgCost |-> l.cost]

\* .map(([symbol,v])=>({ symbol, qty:v.qty, avgCost: v.qty? v.cost/v.qty:0 }))
ToHolding(l) ==
  [symbol |-> l.symbol, qty |-> l.qty,
   avgCost |-> IF l.qty.n # 0 THEN RDiv(l.cost, l.qty) ELSE Zero]

EmitHoldings(ls) ==
  LET kept == SelectSeq(ls, Held)
  IN  [k \in 1..Len(kept) |-> ToHolding(kept[k])]

\* computeHoldings as a function of its argument
ComputeHoldings(txs) == EmitHoldings(FoldAll(<<>>, SortAsc(txs)))

\* mutant: the sign of line 97 ignored, every trade credited
CashStepCredit(c, t) == RAdd(c, RMul(t.qty, t.price))

\* cash += sign * (t.qty * t.price)
CashStep(c, t) ==
  IF t.side = "BUY" THEN RSub(c, RMul(t.qty, t.price))
  ELSE RAdd(c, RMul(t.qty, t.price))

RECURSIVE ComputeCash(_, _)
ComputeCash(txs, starting) ==
  IF txs = <<>> THEN starting
  ELSE ComputeCash(Tail(txs), CashStep(starting, Head(txs)))

(* ------------------------------------------------------------------ *)
(* Quotes, valuation, snapshot store                                  *)
(* ------------------------------------------------------------------ *)

\* Array.prototype.sort with (a,b) => date(b) - date(a): a stable descending sort
RECURSIVE InsertDesc(_, _)
InsertDesc(s, t) ==
  IF s = <<>> THEN <<t>>
  ELSE IF s[Len(s)].date >= t.date THEN Append(s, t)
  ELSE Append(InsertDesc(SubSeq(s, 1, Len(s) - 1), t), s[Len(s)])

RECURSIVE SortDesc(_)
SortDesc(s) ==
  IF s = <<>> THEN <<>>
  ELSE InsertDesc(SortDesc(SubSeq(s, 1, Len(s) - 1)), s[Len(s)])

\* what the provider may answer: resp.ok, and the two fields parseFloat reads
NetworkError == [ok |-> FALSE, price |-> NaN, prevClose |-> NaN]
NoPrice == [ok |-> TRUE, price |-> NaN, prevClose |-> NaN]
PriceOnly == [ok |-> TRUE, price |-> Int2R(3), prevClose |-> NaN]
Quoted == [ok |-> TRUE, price |-> Int2R(3), prevClose |-> Int2R(2)]
Replies == {NetworkError, NoPrice, PriceOnly, Quoted}

\* fetchQuoteAlphaVantage on a reply: it throws (ok FALSE) or returns a quote
ParseQuote(reply) ==
  IF ~reply.ok \/ ~Truthy(reply.price)
  THEN [ok |-> FALSE, price |-> NaN, prevClose |-> Null]
  ELSE [ok |-> TRUE, price |-> reply.price,
        prevClose |-> IF reply.prevClose = NaN THEN Null ELSE reply.prevClose]

\* the object out of fetchQuotes: a function from the symbols quoted
NoQuotes == <<>>

\* try { out[s] = await fetchQuoteAlphaVantage(s, apiKey) } catch { }
WithReply(out, s, reply) ==
  IF ParseQuote(reply).ok
  THEN [x \in DOMAIN out \cup {s} |->
          IF x = s THEN [price |-> ParseQuote(reply).price,
                         prevClose |-> ParseQuote(reply).prevClose]
          ELSE out[x]]
  ELSE out

\* mutant: an unquoted holding priced at 0
LastPriceOrZero(h, quotes) ==
  IF h.symbol \in DOMAIN quotes THEN quotes[h.symbol].price ELSE Zero

\* const last = q? q.price : h.avgCost
LastPrice(h, quotes) ==
  IF h.symbol \in DOMAIN quotes THEN quotes[h.symbol].price ELSE h.avgCost

\* const prev = q? (q.prevClose ?? last) : last
PrevClose(h, quotes) ==
  IF h.symbol \in DOMAIN quotes /\ quotes[h.symbol].prevClose # Null
  THEN quotes[h.symbol].prevClose
  ELSE LastPrice(h, quotes)

\* one iteration of the loop of lines 124-148: the row of holding h
Row(h, quotes) ==
  [symbol |-> h.symbol, qty |-> h.qty, avgCost |-> h.avgCost,
   quoted |-> h.symbol \in DOMAIN quotes,
   last   |-> LastPrice(h, quotes),
   prev   |-> PrevClose(h, quotes),
   value  |-> RMul(h.qty, LastPrice(h, quotes)),
   day    |-> RMul(h.qty, RSub(LastPrice(h, quotes), PrevClose(h, quotes))),
   pl     |-> RSub(RMul(h.qty, LastPrice(h, quotes)), RMul(h.qty, h.avgCost))]

Rows(hs, quotes) == [k \in 1..Len(hs) |-> Row(hs[k], quotes)]

\* totalValue += value
RECURSIVE TotalValue(_)
TotalValue(rows) ==
  IF rows = <<>> THEN Zero ELSE RAdd(Head(rows).value, TotalValue(Tail(rows)))

\* mutant: the holdings alone, the cash left out
PortValueNoCash(tx, cfg, quotes) ==
  TotalValue(Rows(ComputeHoldings(tx), quotes))

\* const portValue = cash + totalValue
PortValue(tx, cfg, quotes) ==
  RAdd(ComputeCash(tx, cfg.startingCash), TotalValue(Rows(ComputeHoldings(tx), quotes)))

\* total += h.qty * (quotes[h.symbol]?.price || h.avgCost), line 255
RECURSIVE SnapTotal(_, _, _)
SnapTotal(hs, quotes, total) ==
  IF hs = <<>> THEN total
  ELSE SnapTotal(Tail(hs), quotes,
                 RAdd(total, RMul(Head(hs).qty, LastPrice(Head(hs), quotes))))

\* mutant: a store that adds the record and replaces none
PutAdd(store, s) == store \cup {s}

\* IDBObjectStore.put on the store whose keyPath is ts
Put(store, s) == {r \in store : r.ts # s.ts} \cup {s}

SymbolsOf(hs) == [k \in 1..Len(hs) |-> hs[k].symbol]

(* ------------------------------------------------------------------ *)
(* State                                                              *)
(* ------------------------------------------------------------------ *)

VARIABLES
  log,           \* the array as the caller built it, before the call
  transactions,  \* the array object passed to computeHoldings
  pc,            \* position in the replay
  i,             \* index of the loop of line 72
  lots,          \* the accumulator of line 70
  holdings,      \* the value computeHoldings returns
  starting,      \* computeCash's second argument
  cashResults,   \* the values computeCash returns, one per ordering of the log
  txStore,       \* IndexedDB store 'transactions', in key order
  snapStore,     \* IndexedDB store 'snapshots': its records
  settings,      \* what Settings.get() returns
  refreshTimer,  \* the variable of line 283 (0: undefined)
  timers,        \* the interval timers that are armed
  tasks,         \* the handler invocations in progress, each at an await
  tbody,         \* the rows of #holdingsTable
  now,           \* the last reading of the clock, in milliseconds
  events,        \* page load, ticks and clicks so far
  market,        \* what the provider answers, by symbol
  lastPut        \* the last putSnapshot: its record and the value it replaced

ledgerVars == <<log, transactions, pc, i, lots, holdings, starting, cashResults>>
appVars == <<txStore, snapStore, settings, refreshTimer, timers, tasks, tbody, now,
             events, market, lastPut>>
vars == <<ledgerVars, appVars>>

\* most handler invocations in progress at once
MaxTasks == 2
\* most events (the page load, timer ticks, clicks) of a run
MaxEvents == 3

Slots == 1..MaxTasks

NoCfg == [provider |-> "", apiKey |-> "", startingCash |-> Zero]
NoForm == [symbol |-> "", side |-> "", qty |-> Zero, price |-> Zero, date |-> 0]

\* a free slot; the fields are the locals of a handler invocation
Idle ==
  [kind   |-> "idle",    \* the handler: boot, tick, addTx, sellAll, snapNow, reset
   pc     |-> "idle",    \* the await it is suspended at
   ret    |-> "none",    \* the caller fetchQuotes returns to
   cfg    |-> NoCfg,     \* settings, as read by render or the handler
   tx     |-> <<>>,      \* tx, the array getAll('transactions') returned
   syms   |-> <<>>,      \* fetchQuotes: symbols
   fi     |-> 0,         \* fetchQuotes: i + 1
   key    |-> "",        \* fetchQuotes: apiKey
   quotes |-> NoQuotes,  \* fetchQuotes: out; then render's quotes
   value  |-> Zero,      \* portValue
   form   |-> NoForm]    \* the transaction being added

NoPut == [ts |-> 0, value |-> Zero, replaced |-> FALSE, old |-> Zero]

\* the application is not running (the replay is checked alone)
AppOff ==
  /\ txStore = <<>>
  /\ snapStore = {}
  /\ settings = NoCfg
  /\ refreshTimer = 0
  /\ timers = {}
  /\ tasks = [k \in Slots |-> Idle]
  /\ tbody = <<>>
  /\ now = 0
  /\ events = 0
  /\ market = <<>>
  /\ lastPut = NoPut

(* ------------------------------------------------------------------ *)
(* The replay of one log, statement by statement                      *)
(* ------------------------------------------------------------------ *)

\* longest log replayed
MaxLen == 2

Symbols == {"aaa", "AAA", "BBB"}
Sides == {"BUY", "SELL"}
Dates == {1, 2}
Prices == {Zero, Int2R(2)}
\* the quantities of a log are written with one exponent: 1 or 2 shares
\* (e = 0), or 0.5e-9, 1e-9 or 2e-9 shares (e = 1), below, at and above the
\* tolerance of line 86
Exps == {0, 1}
Qtys(e) == IF e = 0 THEN {Int2R(1), Int2R(2)} ELSE {Nano(1, 2), Nano(1, 1), Nano(2, 1)}
Startings(e) == {Zero, Norm(100, 1, e)}

TxSet(e) == [symbol : Symbols, side : Sides, qty : Qtys(e), price : Prices, date : Dates]
Logs == UNION {[1..n -> TxSet(e)] : n \in 0..MaxLen, e \in Exps}

\* the exponent the quantities of a log are written with
LogExp(l) == IF \E k \in 1..Len(l) : l[k].qty.e = 1 THEN 1 ELSE 0

Perms(n) == {p \in [1..n -> 1..n] : \A a, b \in 1..n : a # b => p[a] # p[b]}
Permute(l, p) == [k \in 1..Len(l) |-> l[p[k]]]

InitLedger ==
  /\ log \in Logs
  /\ transactions = log
  /\ pc = "call"
  /\ i = 0
  /\ lots = <<>>
  /\ holdings = <<>>
  /\ starting = Zero
  /\ cashResults = {}
  /\ AppOff

\* lines 70-71
SortStep ==
  /\ pc = "call"
  /\ transactions' = SortAsc(transactions)
  /\ lots' = <<>>
  /\ i' = 1
  /\ pc' = "loop"
  /\ UNCHANGED <<log, holdings, starting, cashResults>>
  /\ UNCHANGED appVars

\* lines 72-87, one iteration
LoopStep ==
  /\ pc = "loop"
  /\ i <= Len(transactions)
  /\ lots' = FoldStep(lots, transactions[i])
  /\ i' = i + 1
  /\ UNCHANGED <<log, transactions, pc, holdings, starting, cashResults>>
  /\ UNCHANGED appVars

\* lines 88-91
ReturnHoldings ==
  /\ pc = "loop"
  /\ i > Len(transactions)
  /\ holdings' = EmitHoldings(lots)
  /\ pc' = "returned"
  /\ UNCHANGED <<log, transactions, i, lots, starting, cashResults>>
  /\ UNCHANGED appVars

NextLedger == SortStep \/ LoopStep \/ ReturnHoldings

SpecLedger == InitLedger /\ [][NextLedger]_vars

\* computeCash(o, s) for every ordering o of the log
CallComputeCash ==
  /\ pc = "call"
  /\ \E s \in Startings(LogExp(log)) :
       /\ starting' = s
       /\ cashResults' = {ComputeCash(Permute(transactions, p), s) : p \in Perms(Len(transactions))}
  /\ pc' = "cashed"
  /\ UNCHANGED <<log, transactions, i, lots, holdings>>
  /\ UNCHANGED appVars

NextCash == CallComputeCash

SpecCash == InitLedger /\ [][NextCash]_vars

(* ------------------------------------------------------------------ *)
(* The holdings and the cash of one render, lines 110-111 and 150     *)
(* ------------------------------------------------------------------ *)

InitValue ==
  /\ log \in Logs
  /\ transactions = log
  /\ pc = "call"
  /\ i = 0
  /\ lots = <<>>
  /\ holdings = <<>>
  /\ starting \in Startings(LogExp(log))
  /\ cashResults = {}
  /\ AppOff

\* line 150: computeCash(tx, settings.startingCash), on the array that
\* computeHoldings has sorted
CashOfRender ==
  /\ pc = "returned"
  /\ cashResults' = {ComputeCash(transactions, starting)}
  /\ pc' = "valued"
  /\ UNCHANGED <<log, transactions, i, lots, holdings, starting>>
  /\ UNCHANGED appVars

NextValue == SortStep \/ LoopStep \/ ReturnHoldings \/ CashOfRender

SpecValue == InitValue /\ [][NextValue]_vars

(* ------------------------------------------------------------------ *)
(* The application: handlers, suspended at their awaits               *)
(* ------------------------------------------------------------------ *)

Providers == {"alphavantage"}
ApiKeys == {"", "K"}
\* Settings.get() default, line 34
DefaultCash == 100000
\* the clock, in milliseconds
Times == {1, 2}

BuyAAA == [symbol |-> "AAA", side |-> "BUY", qty |-> Int2R(2), price |-> Int2R(2), date |-> 0]
BuyBBB == [symbol |-> "BBB", side |-> "BUY", qty |-> Int2R(1), price |-> Int2R(4), date |-> 0]
\* what an earlier session may have left in the transaction store
StoredLogs == {<<>>, <<BuyAAA, BuyBBB>>}

\* the fields of #txForm: symbol, side, quantity and price as typed; the date
\* left empty (-1)
FormSymbols == {"", "aaa"}
FormSides == {"BUY"}
FormQtys == {NaN, Int2R(1)}
FormPrices == {NaN, Int2R(5)}
\* #startingCash as typed
FormCash == {NaN}
\* submissions with a quantity of 0 and with a negative quantity
OddForms ==
  {[symbol |-> "aaa", side |-> "BUY", qty |-> q, price |-> Int2R(5), date |-> -1] :
     q \in {Zero, Int2R(-1)}}
Forms == [symbol : FormSymbols, side : FormSides, qty : FormQtys, price : FormPrices,
          date : {-1}] \cup OddForms

\* the provider, for the length of a run
Markets ==
  {[s \in {"AAA", "BBB"} |-> Quoted],
   [s \in {"AAA", "BBB"} |-> IF s = "AAA" THEN NetworkError ELSE Quoted],
   [s \in {"AAA", "BBB"} |-> IF s = "AAA" THEN PriceOnly ELSE NoPrice]}

\* the mutable state the steps of a handler read and write, besides its locals
G == [txStore |-> txStore, snapStore |-> snapStore, tbody |-> tbody,
      lastPut |-> lastPut, now |-> now]

\* what new Date() may read: the clock does not go back
Later == {ts \in Times : ts >= now}

\* the result of a step: the locals, the state
Out(t, g) == [t |-> t, g |-> g]

\* putSnapshot({ ts: new Date().toISOString(), value }), the clock reading ts
PutSnapshot(g, value, ts) ==
  [g EXCEPT !.snapStore = Put(@, [ts |-> ts, value |-> value]),
            !.now = ts,
            !.lastPut = [ts |-> ts, value |-> value,
                         replaced |-> \E r \in g.snapStore : r.ts = ts,
                         old |-> IF \E r \in g.snapStore : r.ts = ts
                                 THEN (CHOOSE r \in g.snapStore : r.ts = ts).value
                                 ELSE Zero]]

\* render, lines 106-110: read the settings, ask for the transactions
StartRender(t, cfg, store) ==
  [Idle EXCEPT !.kind = t.kind, !.pc = "r_holdings", !.cfg = cfg, !.tx = store]

\* render, lines 120-175, with the quotes in hand: the table, the cash, the
\* value, the timeline (which sorts tx in place), then await getAll('snapshots')
Valuate(t, g, quotes) ==
  Out([Idle EXCEPT !.kind = t.kind, !.pc = "r_put", !.ret = "render", !.cfg = t.cfg,
                   !.tx = SortDesc(t.tx), !.quotes = quotes,
                   !.value = PortValue(t.tx, t.cfg, quotes)],
      [g EXCEPT !.tbody = Rows(ComputeHoldings(t.tx), quotes)])

\* click on #snapshotNow, lines 254-257, with the quotes in hand
SnapshotTotal(t, g, quotes, ts) ==
  Out([Idle EXCEPT !.kind = t.kind, !.pc = "a_render"],
      PutSnapshot(g, SnapTotal(ComputeHoldings(t.tx), quotes,
                               ComputeCash(t.tx, t.cfg.startingCash)), ts))

\* click on #addTx, lines 227-232, with the quote in hand
AddAtMarket(t, g, quotes) ==
  IF t.form.symbol \in DOMAIN quotes
  THEN Out([Idle EXCEPT !.kind = t.kind, !.pc = "a_render"],
           [g EXCEPT !.txStore = Append(@, [t.form EXCEPT !.price = quotes[t.form.symbol].price])])
  ELSE Out(Idle, g)

\* mutant: without a quote the sale goes on at price 0
SellPricedOrZero(t, g, quotes) ==
  Out([Idle EXCEPT !.kind = t.kind, !.pc = "s_find", !.tx = g.txStore,
                   !.form = [t.form EXCEPT !.price =
                               IF t.form.symbol \in DOMAIN quotes
                               THEN quotes[t.form.symbol].price ELSE Zero]],
      g)

\* sellAllAtMarket, lines 202-205, with the quote in hand
SellPriced(t, g, quotes) ==
  IF t.form.symbol \in DOMAIN quotes
  THEN Out([Idle EXCEPT !.kind = t.kind, !.pc = "s_find", !.tx = g.txStore,
                        !.form = [t.form EXCEPT !.price = quotes[t.form.symbol].price]],
           g)
  ELSE Out(Idle, g)

\* fetchQuotes returns to its caller
Resume(t, g, quotes, ts) ==
  CASE t.ret = "render"  -> Valuate(t, g, quotes)
    [] t.ret = "snapNow" -> SnapshotTotal(t, g, quotes, ts)
    [] t.ret = "addTx"   -> AddAtMarket(t, g, quotes)
    [] t.ret = "sellAll" -> SellPriced(t, g, quotes)

\* fetch(url) for symbols[k]
Request(t, g, k) == Out([t EXCEPT !.pc = "f_wait", !.fi = k], g)

\* fetchQuotes(symbols), lines 53-60, called for the caller ret
FetchQuotes(t, g, symbols, ret, ts) ==
  IF settings.provider = "alphavantage" /\ Len(symbols) > 0
  THEN Request([t EXCEPT !.ret = ret, !.syms = symbols, !.key = settings.apiKey,
                         !.quotes = NoQuotes], g, 1)
  ELSE Resume([t EXCEPT !.ret = ret], g, NoQuotes, ts)

\* lines 111-118 and 250-253: the holdings, then the quotes if there is a key
\* and a holding
HoldingsThenQuotes(t, g, ret, ts) ==
  LET hs == ComputeHoldings(t.tx)
      u == [t EXCEPT !.tx = SortAsc(t.tx), !.ret = ret]
  IN  IF t.cfg.apiKey # "" /\ Len(hs) > 0
      THEN FetchQuotes(u, g, SymbolsOf(hs), ret, ts)
      ELSE Resume(u, g, NoQuotes, ts)

\* mutant: the first failed request ends the batch
OnReplyAbort(t, g, reply, ts) ==
  IF t.fi < Len(t.syms) /\ ParseQuote(reply).ok
  THEN Out([t EXCEPT !.pc = "f_sleep",
                     !.quotes = WithReply(t.quotes, t.syms[t.fi], reply)], g)
  ELSE Resume(t, g, WithReply(t.quotes, t.syms[t.fi], reply), ts)

\* the reply to the request in flight, lines 60-65
OnReply(t, g, reply, ts) ==
  IF t.fi < Len(t.syms)
  THEN Out([t EXCEPT !.pc = "f_sleep",
                     !.quotes = WithReply(t.quotes, t.syms[t.fi], reply)], g)
  ELSE Resume(t, g, WithReply(t.quotes, t.syms[t.fi], reply), ts)

\* sellAllAtMarket, lines 206-209
SellFound(t, g, ts) ==
  LET hs == ComputeHoldings(t.tx)
      found == {k \in 1..Len(hs) : hs[k].symbol = t.form.symbol}
  IN  IF found = {} THEN Out(Idle, g)
      ELSE Out([Idle EXCEPT !.kind = t.kind, !.pc = "a_render"],
               [g EXCEPT !.now = ts,
                         !.txStore =
                  Append(@, [t.form EXCEPT !.qty = hs[CHOOSE k \in found : TRUE].qty,
                                           !.date = ts])])

\* the state after a step of the invocation in slot self
Apply(self, out) ==
  /\ tasks' = [tasks EXCEPT ![self] = out.t]
  /\ txStore' = out.g.txStore
  /\ snapStore' = out.g.snapStore
  /\ tbody' = out.g.tbody
  /\ lastPut' = out.g.lastPut
  /\ now' = out.g.now

HasFree == \E k \in Slots : tasks[k].kind = "idle"
Free == CHOOSE k \in Slots : tasks[k].kind = "idle" /\ \A j \in Slots : tasks[j].kind = "idle" => k <= j
CanStart == HasFree /\ events < MaxEvents

New(kind) == [Idle EXCEPT !.kind = kind]

\* the page is loaded: openDB() is pending, boot follows
Init ==
  /\ log = <<>> /\ transactions = <<>> /\ pc = "off" /\ i = 0 /\ lots = <<>>
  /\ holdings = <<>> /\ starting = Zero /\ cashResults = {}
  /\ txStore \in StoredLogs
  /\ snapStore = {}
  /\ settings \in [provider : Providers, apiKey : ApiKeys, startingCash : {Int2R(DefaultCash)}]
  /\ refreshTimer = 0
  /\ timers = {}
  /\ tasks = [k \in Slots |-> IF k = 1 THEN [Idle EXCEPT !.kind = "boot", !.pc = "boot"] ELSE Idle]
  /\ tbody = <<>>
  /\ now = 1
  /\ events = 1
  /\ market \in Markets
  /\ lastPut = NoPut

\* boot, lines 285-292: cancel the timer, start render
Boot(self) ==
  /\ tasks[self].pc = "boot"
  /\ timers' = timers \ {refreshTimer}
  /\ Apply(self, Out(StartRender(tasks[self], settings, txStore), G))
  /\ UNCHANGED <<ledgerVars, settings, refreshTimer, events, market>>

\* render resumes with the transactions: lines 111-118 and what follows
RenderHoldings(self) ==
  /\ tasks[self].pc = "r_holdings"
  /\ Apply(self, HoldingsThenQuotes(tasks[self], G, "render", now))
  /\ UNCHANGED <<ledgerVars, settings, refreshTimer, timers, events, market>>

\* the provider answers the request in flight
QuoteReply(self) ==
  /\ tasks[self].pc = "f_wait"
  /\ \E ts \in Later :
       Apply(self, OnReply(tasks[self], G, market[tasks[self].syms[tasks[self].fi]], ts))
  /\ UNCHANGED <<ledgerVars, settings, refreshTimer, timers, events, market>>

\* the throttle timer of line 62 fires: the next request
ThrottleWake(self) ==
  /\ tasks[self].pc = "f_sleep"
  /\ Apply(self, Request(tasks[self], G, tasks[self].fi + 1))
  /\ UNCHANGED <<ledgerVars, settings, refreshTimer, timers, events, market>>

\* render, lines 176-194: the chart, then the snapshot; render returns when
\* the put is done, and only boot has something left to do
RenderPut(self) ==
  /\ tasks[self].pc = "r_put"
  /\ \E ts \in Later :
       Apply(self, Out(IF tasks[self].kind = "boot"
                       THEN [Idle EXCEPT !.kind = "boot", !.pc = "r_end"]
                       ELSE Idle,
                       PutSnapshot(G, tasks[self].value, ts)))
  /\ UNCHANGED <<ledgerVars, settings, refreshTimer, timers, events, market>>

\* the least timer id not armed
NewTimer == CHOOSE n \in 1..(MaxEvents + 1) : n \notin timers /\ \A m \in 1..(n - 1) : m \in timers

\* boot, lines 293-299, after await render(): arm the interval timer
ArmTimer(self) ==
  /\ tasks[self].pc = "r_end"
  /\ refreshTimer' = NewTimer
  /\ timers' = timers \cup {NewTimer}
  /\ Apply(self, Out(Idle, G))
  /\ UNCHANGED <<ledgerVars, settings, events, market>>

\* the interval timer fires: render, line 296
TimerTick ==
  /\ timers # {}
  /\ CanStart
  /\ events' = events + 1
  /\ Apply(Free, Out(StartRender(New("tick"), settings, txStore), G))
  /\ UNCHANGED <<ledgerVars, settings, refreshTimer, timers, market>>

\* the transaction the form holds, lines 215-219
Draft(f, ts) ==
  [symbol |-> Upper(f.symbol), side |-> f.side, qty |-> f.qty, price |-> f.price,
   date |-> IF f.date = -1 THEN ts ELSE f.date]

\* click on #addTx, lines 214-232
ClickAddTx ==
  /\ CanStart
  /\ events' = events + 1
  /\ \E f \in Forms, ts \in Later :
       IF f.symbol = "" \/ ~Truthy(f.qty)
       THEN UNCHANGED <<tasks, txStore, snapStore, tbody, lastPut, now>>
       ELSE IF Truthy(f.price)
       THEN Apply(Free, Out([New("addTx") EXCEPT !.pc = "a_render"],
                            [G EXCEPT !.now = ts, !.txStore = Append(@, Draft(f, ts))]))
       ELSE IF settings.apiKey = ""
       THEN /\ now' = ts
            /\ UNCHANGED <<tasks, txStore, snapStore, tbody, lastPut>>
       ELSE Apply(Free, FetchQuotes([New("addTx") EXCEPT !.form = Draft(f, ts)],
                                    [G EXCEPT !.now = ts], <<Upper(f.symbol)>>, "addTx",
                                    ts))
  /\ UNCHANGED <<ledgerVars, settings, refreshTimer, timers, market>>

\* after await addTx(...) or the stores' clear: render
StartCycle(self) ==
  /\ tasks[self].pc = "a_render"
  /\ Apply(self, Out(StartRender(tasks[self], settings, txStore), G))
  /\ UNCHANGED <<ledgerVars, settings, refreshTimer, timers, events, market>>

\* click on a row's Sell All button: sellAllAtMarket(symbol), lines 197-204
ClickSellAll ==
  /\ CanStart
  /\ events' = events + 1
  /\ \E k \in 1..Len(tbody) :
       IF settings.apiKey = ""
       THEN UNCHANGED <<tasks, txStore, snapStore, tbody, lastPut, now>>
       ELSE Apply(Free, FetchQuotes([New("sellAll") EXCEPT
                                       !.form = [symbol |-> tbody[k].symbol, side |-> "SELL",
                                                 qty |-> Zero, price |-> Zero, date |-> 0]],
                                    G, <<tbody[k].symbol>>, "sellAll", now))
  /\ UNCHANGED <<ledgerVars, settings, refreshTimer, timers, market>>

\* sellAllAtMarket resumes with the transactions, lines 206-209
SellFind(self) ==
  /\ tasks[self].pc = "s_find"
  /\ \E ts \in Later : Apply(self, SellFound(tasks[self], G, ts))
  /\ UNCHANGED <<ledgerVars, settings, refreshTimer, timers, events, market>>

\* click on #snapshotNow, lines 248-249
ClickSnapshotNow ==
  /\ CanStart
  /\ events' = events + 1
  /\ Apply(Free, Out([New("snapNow") EXCEPT !.pc = "n_holdings", !.cfg = settings,
                                            !.tx = txStore], G))
  /\ UNCHANGED <<ledgerVars, settings, refreshTimer, timers, market>>

\* the handler resumes with the transactions, lines 250-256
SnapHoldings(self) ==
  /\ tasks[self].pc = "n_holdings"
  /\ \E ts \in Later : Apply(self, HoldingsThenQuotes(tasks[self], G, "snapNow", ts))
  /\ UNCHANGED <<ledgerVars, settings, refreshTimer, timers, events, market>>

\* click on #resetAll, confirmed: lines 272-273
ClickResetAll ==
  /\ CanStart
  /\ events' = events + 1
  /\ Apply(Free, Out([New("reset") EXCEPT !.pc = "x_snaps"], [G EXCEPT !.txStore = <<>>]))
  /\ UNCHANGED <<ledgerVars, settings, refreshTimer, timers, market>>

\* line 274
ClearSnapshots(self) ==
  /\ tasks[self].pc = "x_snaps"
  /\ Apply(self, Out([New("reset") EXCEPT !.pc = "a_render"], [G EXCEPT !.snapStore = {}]))
  /\ UNCHANGED <<ledgerVars, settings, refreshTimer, timers, events, market>>

\* click on #saveSettings, lines 264-270: Settings.set, then boot()
ClickSaveSettings ==
  /\ CanStart
  /\ events' = events + 1
  /\ \E key \in ApiKeys, cash \in FormCash :
       /\ settings' = [provider |-> settings.provider, apiKey |-> key,
                       startingCash |-> IF Truthy(cash) THEN cash ELSE Int2R(DefaultCash)]
       /\ timers' = timers \ {refreshTimer}
       /\ Apply(Free, Out(StartRender(New("boot"), settings', txStore), G))
  /\ UNCHANGED <<ledgerVars, refreshTimer, market>>

TaskStep(self) ==
  \/ Boot(self)
  \/ RenderHoldings(self)
  \/ QuoteReply(self)
  \/ ThrottleWake(self)
  \/ RenderPut(self)
  \/ ArmTimer(self)
  \/ StartCycle(self)
  \/ SellFind(self)
  \/ SnapHoldings(self)
  \/ ClearSnapshots(self)

Next ==
  \/ \E self \in Slots : TaskStep(self)
  \/ TimerTick
  \/ ClickAddTx
  \/ ClickSellAll
  \/ ClickSnapshotNow
  \/ ClickResetAll
  \/ ClickSaveSettings

Spec == Init /\ [][Next]_vars

\* the invocation is suspended at an await. Every await of the handlers has
\* its continuation among the disjuncts of TaskStep, guarded by the pc alone,
\* and every continuation moves the pc: Suspended(self) is
\* ENABLED <<TaskStep(self)>>_vars
Suspended(self) == tasks[self].pc # "idle"

\* WF_vars(TaskStep(self)), its ENABLED written out: storage requests, provider
\* requests and the throttle timer complete, so an invocation suspended at
\* an await is resumed
Resumed(self) == []<>(~Suspended(self)) \/ []<><<TaskStep(self)>>_vars

SpecFair == Init /\ [][Next]_vars /\ \A self \in Slots : Resumed(self)

(* ------------------------------------------------------------------ *)
(* One call of fetchQuotes, from the render that makes it             *)
(* ------------------------------------------------------------------ *)

FetchSymbols == {"AAA", "BBB", "CCC"}

\* a log that holds the symbols of list, in that order
HoldingAll(list) ==
  [n \in 1..Len(list) |->
     [symbol |-> list[n], side |-> "BUY", qty |-> Int2R(1), price |-> Int2R(2), date |-> 0]]

\* the lists of distinct symbols
SymbolLists ==
  {list \in UNION {[1..n -> FetchSymbols] : n \in 0..Cardinality(FetchSymbols)} :
     \A a, b \in DOMAIN list : a # b => list[a] # list[b]}

\* render has read the settings, a key among them, and asked for the
\* transactions; every request may succeed or fail
InitFetch ==
  /\ log = <<>> /\ transactions = <<>> /\ pc = "off" /\ i = 0 /\ lots = <<>>
  /\ holdings = <<>> /\ starting = Zero /\ cashResults = {}
  /\ txStore \in {HoldingAll(list) : list \in SymbolLists}
  /\ snapStore = {}
  /\ settings = [provider |-> "alphavantage", apiKey |-> "K",
                 startingCash |-> Int2R(DefaultCash)]
  /\ refreshTimer = 0
  /\ timers = {}
  /\ tasks = [k \in Slots |->
                IF k = 1 THEN StartRender(New("boot"), settings, txStore) ELSE Idle]
  /\ tbody = <<>>
  /\ now = 1
  /\ events = 1
  /\ market \in [FetchSymbols -> Replies]
  /\ lastPut = NoPut

FetchStep(self) ==
  \/ RenderHoldings(self)
  \/ QuoteReply(self)
  \/ ThrottleWake(self)

NextFetch == \E self \in Slots : FetchStep(self)

\* the call is not over: ENABLED <<FetchStep(self)>>_vars
Fetching(self) == tasks[self].pc \in {"r_holdings", "f_wait", "f_sleep"}

\* WF_vars(FetchStep(self)), its ENABLED written out: every request is
\* answered or fails, and the throttle timer fires
SpecFetch ==
  /\ InitFetch
  /\ [][NextFetch]_vars
  /\ \A self \in Slots : []<>(~Fetching(self)) \/ []<><<FetchStep(self)>>_vars

(* ------------------------------------------------------------------ *)
(* Properties of the replay                                           *)
(* ------------------------------------------------------------------ *)

UpperSyms == {Upper(s) : s \in Symbols}

\* the positions of the log that trade symbol S, compared case-insensitively
IdxOf(l, S) == {k \in 1..Len(l) : Upper(l[k].symbol) = S}

\* position a is replayed before position b: earlier date, or same date and
\* earlier in the array
Before(l, a, b) == l[a].date < l[b].date \/ (l[a].date = l[b].date /\ a < b)

\* the loop has gone through every transaction of S
DoneWith(S) ==
  \/ pc = "returned"
  \/ /\ pc = "loop"
     /\ Cardinality({k \in 1..(i - 1) : Upper(transactions[k].symbol) = S})
          = Cardinality(IdxOf(log, S))

NoHolding(S) == \A k \in 1..Len(holdings) : holdings[k].symbol # S

\* the log trades S exactly twice: a BUY of q, then (by date) a SELL of q
BuyThenSell(S) ==
  \E a, b \in IdxOf(log, S) :
    /\ IdxOf(log, S) = {a, b}
    /\ a # b
    /\ log[a].side = "BUY"
    /\ log[b].side = "SELL"
    /\ log[a].qty = log[b].qty
    /\ Before(log, a, b)

\* C1 Full liquidation: when the log trades a symbol exactly by a BUY of q
\* followed by date by a SELL of the same q, the symbol's accumulator holds
\* qty 0 and cost 0 once the SELL is replayed, and the output holds no
\* holding of the symbol.
C1_FullLiquidation ==
  \A S \in UpperSyms :
    (BuyThenSell(S) /\ DoneWith(S)) =>
      /\ HasLot(lots, S)
      /\ lots[LotIndex(lots, S)].qty = Zero
      /\ lots[LotIndex(lots, S)].cost = Zero
      /\ (pc = "returned" => NoHolding(S))

\* a BUY at a positive price and the SELL of the same quantity, passed in the
\* other order, replayed next to a holding of another symbol
C1_Witness ==
  /\ pc = "returned"
  /\ BuyThenSell("AAA")
  /\ log[1].side = "SELL"
  /\ log[2].price # Zero
  /\ NoHolding("AAA")

\* cost / qty of an accumulator entry
AvgOfLot(l) == IF l.qty.n = 0 THEN NaN ELSE RDiv(l.cost, l.qty)

\* the entry of the symbol the loop is about to replay
CurLot == lots[LotIndex(lots, Upper(transactions[i].symbol))]
CurLotAfter == lots'[LotIndex(lots', Upper(transactions[i].symbol))]

\* the loop is about to replay a SELL of less than the quantity held
PartialSell ==
  /\ pc = "loop"
  /\ i <= Len(transactions)
  /\ transactions[i].side = "SELL"
  /\ HasLot(lots, Upper(transactions[i].symbol))
  /\ RLt(Zero, CurLot.qty)
  /\ RLt(transactions[i].qty, CurLot.qty)

\* C2 as the spec states it: every SELL of less than the quantity held leaves
\* the average cost (cost / qty) of the symbol unchanged.
C2_AsStated ==
  [][PartialSell => AvgOfLot(CurLotAfter) = AvgOfLot(CurLot)]_vars

\* C2 Partial sell cost preservation, amended: a SELL of less than the
\* quantity held leaves the average cost unchanged when at least 1e-9 remains;
\* when less than 1e-9 remains the entry is reset to qty 0, cost 0.
C2_PartialSell ==
  [][PartialSell =>
       IF RLe(Tolerance, RSub(CurLot.qty, transactions[i].qty))
       THEN /\ CurLotAfter.qty = RSub(CurLot.qty, transactions[i].qty)
            /\ AvgOfLot(CurLotAfter) = AvgOfLot(CurLot)
       ELSE /\ CurLotAfter.qty = Zero
            /\ CurLotAfter.cost = Zero]_vars

\* a BUY at a positive price, then a SELL of less at another price, replayed
C2_Witness ==
  /\ pc = "loop"
  /\ i = 3
  /\ transactions[1].side = "BUY"
  /\ transactions[2].side = "SELL"
  /\ Upper(transactions[1].symbol) = Upper(transactions[2].symbol)
  /\ RLt(transactions[2].qty, transactions[1].qty)
  /\ transactions[1].price # Zero
  /\ transactions[2].price # transactions[1].price
  /\ lots[1].qty = RSub(transactions[1].qty, transactions[2].qty)
  /\ AvgOfLot(lots[1]) = transactions[1].price

RECURSIVE SumQty(_, _)
SumQty(l, S) ==
  IF l = <<>> THEN Zero
  ELSE RAdd(IF Upper(Head(l).symbol) = S THEN Head(l).qty ELSE Zero, SumQty(Tail(l), S))

RECURSIVE SumCost(_, _)
SumCost(l, S) ==
  IF l = <<>> THEN Zero
  ELSE RAdd(IF Upper(Head(l).symbol) = S THEN RMul(Head(l).qty, Head(l).price) ELSE Zero,
            SumCost(Tail(l), S))

BuyOnly == \A k \in 1..Len(log) : log[k].side = "BUY"
Traded == {Upper(log[k].symbol) : k \in 1..Len(log)}

\* exactly one holding of S, with the summed quantity and the weighted average
OneWeightedHolding(S) ==
  /\ Cardinality({k \in 1..Len(holdings) : holdings[k].symbol = S}) = 1
  /\ \A k \in 1..Len(holdings) :
       holdings[k].symbol = S =>
         /\ holdings[k].qty = SumQty(log, S)
         /\ holdings[k].avgCost = RDiv(SumCost(log, S), SumQty(log, S))

FirstIdx(S) == CHOOSE a \in IdxOf(log, S) : \A b \in IdxOf(log, S) \ {a} : Before(log, a, b)

RECURSIVE SumSide(_, _)
SumSide(l, side) ==
  IF l = <<>> THEN Zero
  ELSE RAdd(IF Head(l).side = side THEN RMul(Head(l).qty, Head(l).price) ELSE Zero,
            SumSide(Tail(l), side))

InCycle(t) ==
  \/ t.pc \in {"r_holdings", "r_put"}
  \/ t.pc \in {"f_wait", "f_sleep"} /\ t.ret = "render"

\* a step in which the interval timer starts a render
TickStarts == \E k \in Slots : tasks[k].kind # "tick" /\ tasks'[k].kind = "tick"

\* C6: the refresh timer never starts a valuation cycle while an earlier
\* cycle is still running; a cycle runs to completion before the next tick
\* fires: at every tick that starts render, no invocation started by an
\* earlier tick is inside render.
C6_SingleFlight ==
  [][TickStarts => \A j \in Slots : ~(tasks[j].kind = "tick" /\ InCycle(tasks[j]))]_vars

InFlight == {k \in Slots : tasks[k].pc = "f_wait"}

\* C7: over any sequence of triggers, at most one provider request is in
\* flight at any time.
C7_OneInFlight == Cardinality(InFlight) <= 1

\* sum over the holdings of qty * lastPrice, the quoted price or else avgCost
RECURSIVE SumValue(_, _)
SumValue(hs, quotes) ==
  IF hs = <<>> THEN Zero
  ELSE RAdd(RMul(Head(hs).qty,
                 IF Head(hs).symbol \in DOMAIN quotes
                 THEN quotes[Head(hs).symbol].price ELSE Head(hs).avgCost),
            SumValue(Tail(hs), quotes))

\* the snapshot the cycle of invocation t owes, taken at ts
Owed(t, ts) ==
  [ts |-> ts,
   value |-> RAdd(ComputeCash(t.tx, t.cfg.startingCash),
                  SumValue(ComputeHoldings(t.tx), t.quotes))]

Occurrences(s, x) == Cardinality({n \in 1..Len(s) : s[n] = x})

SameLog(a, b) ==
  /\ Len(a) = Len(b)
  /\ \A n \in 1..Len(a) : Occurrences(a, a[n]) = Occurrences(b, a[n])

\* a cycle starts with the settings and one read of the transaction store
CycleReadsOnce(k) ==
  (~InCycle(tasks[k]) /\ InCycle(tasks'[k]))
    => /\ tasks'[k].pc = "r_holdings"
       /\ tasks'[k].tx = txStore'
       /\ tasks'[k].cfg = settings'

\* while it runs it keeps what it read
CycleKeepsLog(k) ==
  (InCycle(tasks[k]) /\ InCycle(tasks'[k]))
    => /\ SameLog(tasks'[k].tx, tasks[k].tx)
       /\ tasks'[k].cfg = tasks[k].cfg

\* it ends only by putting the snapshot it owes
CycleEndsWithPut(k) ==
  (InCycle(tasks[k]) /\ ~InCycle(tasks'[k]))
    => /\ tasks[k].pc = "r_put"
       /\ Owed(tasks[k], now') \in snapStore'

Puts(k) ==
  \/ tasks[k].pc = "r_put" /\ tasks'[k].pc # "r_put"
  \/ tasks[k].kind = "snapNow" /\ tasks[k].pc # "a_render" /\ tasks'[k].pc = "a_render"

OnePerKey(store) == \A r, q \in store : r.ts = q.ts => r = q

\* C9: the snapshot store holds at most one record per ts in every
\* reachable state; a put leaves exactly one record for its ts, carrying
\* the value written, also when a record with that ts was there, and
\* leaves the records with other keys unchanged.
C9_Upsert ==
  /\ [](OnePerKey(snapStore))
  /\ [][\A k \in Slots : Puts(k) =>
          /\ {r \in snapStore' : r.ts = now'} = {[ts |-> now', value |-> lastPut'.value]}
          /\ {r \in snapStore' : r.ts # now'} = {r \in snapStore : r.ts # now'}]_vars

\* the last put replaced a record of another value, next to a record of another key
C9_Witness ==
  /\ lastPut.replaced
  /\ lastPut.old # lastPut.value
  /\ [ts |-> lastPut.ts, value |-> lastPut.value] \in snapStore
  /\ \E r \in snapStore : r.ts # lastPut.ts

\* the table render builds for holdings hs with quotes
Degrades(rows, hs, quotes) ==
  /\ Len(rows) = Len(hs)
  /\ \A n \in 1..Len(hs) :
       /\ rows[n].symbol = hs[n].symbol
       /\ hs[n].symbol \notin DOMAIN quotes =>
            /\ rows[n].last = hs[n].avgCost
            /\ rows[n].prev = hs[n].avgCost
            /\ rows[n].day = Zero
            /\ rows[n].pl = Zero
       /\ hs[n].symbol \in DOMAIN quotes =>
            /\ rows[n].last = quotes[hs[n].symbol].price
            /\ rows[n].value = RMul(hs[n].qty, quotes[hs[n].symbol].price)

\* the request of render for a symbol fails, and render goes on
FailedFor(k) ==
  /\ tasks[k].pc = "f_wait"
  /\ tasks[k].ret = "render"
  /\ ~ParseQuote(market[tasks[k].syms[tasks[k].fi]]).ok
  /\ InCycle(tasks'[k])

\* C10: in a valuation cycle a symbol whose quote fetch failed is absent
\* from the quotes, and for every holding absent from the quotes lastPrice
\* and prevClose both equal its avgCost, so it contributes 0 to the day
\* change and 0 to the unrealized P&L, while the holdings with a quote are
\* valued at the quoted price.
C10_Degradation ==
  [][\A k \in Slots :
       /\ FailedFor(k) => tasks[k].syms[tasks[k].fi] \notin DOMAIN tasks'[k].quotes
       /\ (tasks[k].pc # "r_put" /\ tasks'[k].pc = "r_put") =>
            Degrades(tbody', ComputeHoldings(tasks'[k].tx), tasks'[k].quotes)]_vars

\* render has built the table with a key set, one holding quoted at another
\* price than its cost and one not quoted
C10_Witness ==
  \E k \in Slots :
    /\ tasks[k].pc = "r_put"
    /\ tasks[k].cfg.apiKey # ""
    /\ tbody = Rows(ComputeHoldings(tasks[k].tx), tasks[k].quotes)
    /\ \E r, q \in 1..Len(tbody) :
         /\ tbody[r].quoted /\ tbody[r].last # tbody[r].avgCost
         /\ ~tbody[q].quoted /\ tbody[q].last = tbody[q].avgCost

\* the request for symbol s succeeds
Succeeds(s) == ParseQuote(market[s]).ok

\* the symbols among the first n of the list whose request succeeded
Fetched(t, n) == {t.syms[j] : j \in {j \in 1..n : Succeeds(t.syms[j])}}

\* what fetchQuotes has put in out when it waits for the reply of request
\* fi, and when it sleeps after it
BatchSoFar(t) ==
  /\ t.pc = "f_wait" =>
       /\ t.fi \in 1..Len(t.syms)
       /\ DOMAIN t.quotes = Fetched(t, t.fi - 1)
  /\ t.pc = "f_sleep" =>
       /\ t.fi \in 1..(Len(t.syms) - 1)
       /\ DOMAIN t.quotes = Fetched(t, t.fi)

\* the requests go out one per symbol, in the order of the list
BatchInOrder(k) ==
  (tasks[k].pc # "f_wait" /\ tasks'[k].pc = "f_wait") =>
    tasks'[k].fi = IF tasks[k].pc = "f_sleep" THEN tasks[k].fi + 1 ELSE 1

\* fetchQuotes returns after the last symbol's request, with the quotes of
\* the symbols whose request succeeded
BatchReturns(k) ==
  (tasks[k].pc = "f_wait" /\ tasks'[k].pc \notin {"f_wait", "f_sleep"}) =>
    /\ tasks[k].fi = Len(tasks[k].syms)
    /\ tasks'[k].pc = "r_put"
    /\ DOMAIN tasks'[k].quotes = Fetched(tasks[k], Len(tasks[k].syms))
    /\ \A s \in DOMAIN tasks'[k].quotes :
         tasks'[k].quotes[s].price = market[s].price

\* C11: for every list of symbols and every subset of them whose request
\* fails, fetchQuotes terminates without raising, issues exactly one
\* request per symbol in input order, and returns a mapping whose keys are
\* exactly the symbols whose request succeeded.
C11_BatchNotAborted ==
  /\ [](\A k \in Slots : BatchSoFar(tasks[k]))
  /\ [][\A k \in Slots : BatchInOrder(k) /\ BatchReturns(k)]_vars
  /\ \A k \in Slots : (tasks[k].pc \in {"f_wait", "f_sleep"}) ~> (tasks[k].pc = "r_put")

\* fetchQuotes has returned to render for three symbols: the first request
\* failed, a later one succeeded
C11_Witness ==
  \E k \in Slots :
    /\ tasks[k].pc = "r_put"
    /\ Len(tbody) = 3
    /\ ~tbody[1].quoted
    /\ tbody[1].symbol \notin DOMAIN tasks[k].quotes
    /\ \E n \in 2..3 : tbody[n].quoted /\ tbody[n].symbol \in DOMAIN tasks[k].quotes

\* C12: whenever fetchQuotes runs while the configured API key is empty,
\* no provider request is attempted: no request is in flight for a call of
\* fetchQuotes that read an empty key.
C12_NoRequestWithoutKey ==
  \A k \in Slots : tasks[k].pc = "f_wait" => tasks[k].key # ""

\* the quote request of an add-transaction or sell-all handler fails
PriceFails(k) ==
  /\ tasks[k].pc = "f_wait"
  /\ tasks[k].ret \in {"addTx", "sellAll"}
  /\ ~Succeeds(tasks[k].syms[tasks[k].fi])
  /\ tasks'[k] # tasks[k]

StoresUnchanged == txStore' = txStore /\ snapStore' = snapStore /\ tbody' = tbody

\* with no key stored, a handler of these two goes on only for an
\* add-transaction with a typed price
StartsUnpriced(k) ==
  /\ settings.apiKey = ""
  /\ tasks[k].kind = "idle"
  /\ tasks'[k].kind \in {"addTx", "sellAll"}
  /\ ~(tasks'[k].pc = "a_render" /\ Len(txStore') = Len(txStore) + 1
       /\ Truthy(txStore'[Len(txStore')].price))

\* C13: if sellAllAtMarket, or add-transaction submitted without a price,
\* cannot obtain a market price because the API key is empty or the quote
\* fetch fails, the action ends without adding a transaction, without
\* recording a snapshot and without running a cycle: when the fetch fails
\* the handler ends and the stores are as they were; with an empty key no
\* such handler gets past the click, and a click that starts no handler
\* leaves the stores as they were.
C13_NoPartialTransaction ==
  [][/\ \A k \in Slots : PriceFails(k) => tasks'[k] = Idle /\ StoresUnchanged
     /\ \A k \in Slots : ~StartsUnpriced(k)
     /\ (events' # events /\ tasks' = tasks) => StoresUnchanged]_vars

\* a sell-all and an add-transaction without a price each wait for a quote
\* that fails
C13_Witness ==
  \E k, j \in Slots :
    /\ tasks[k].pc = "f_wait" /\ tasks[k].ret = "sellAll"
    /\ ~Succeeds(tasks[k].syms[1])
    /\ tasks[j].pc = "f_wait" /\ tasks[j].ret = "addTx"
    /\ ~Succeeds(tasks[j].syms[1])

\* C14: every transaction in the store has a symbol, a side of BUY or SELL, a
\* quantity above 0 and a price of 0 or more: a submission with a missing
\* symbol or a missing, zero or negative quantity stores nothing.
WellFormed(tx) ==
  /\ tx.symbol # ""
  /\ tx.side \in {"BUY", "SELL"}
  /\ tx.qty \notin {NaN, Null}
  /\ RLt(Zero, tx.qty)
  /\ tx.price \notin {NaN, Null}
  /\ RLe(Zero, tx.price)
C14_WellFormedLog == \A j \in 1..Len(txStore) : WellFormed(txStore[j])

\* C15: a call of computeHoldings leaves the sequence passed to it as it was,
\* the same transactions in the same order.
C15_ArgumentUnchanged == transactions = log

\* C16: the settings of a cycle are those stored when it started: the key its
\* fetch sends is the key render read, on which it decided to fetch.
C16_SettingsFixedPerCycle ==
  \A k \in Slots :
    (tasks[k].ret = "render" /\ tasks[k].pc \in {"f_wait", "f_sleep"})
      => tasks[k].key = tasks[k].cfg.apiKey

\* the ordering o = Permute(l, p) keeps the transactions of one date in the
\* order they have in l
KeepsTies(l, p) ==
  \A a, b \in 1..Len(l) : (a < b /\ l[p[a]].date = l[p[b]].date) => p[a] < p[b]

\* o is l in ascending date order, the transactions of one date in the order
\* of l
StableByDate(l, o) ==
  /\ \A a, b \in 1..Len(o) : a < b => o[a].date <= o[b].date
  /\ \E p \in Perms(Len(l)) : o = Permute(l, p) /\ KeepsTies(l, p)

\* C17: the loop replays the log in ascending date order, the transactions
\* of one date in the order they were passed in, so every ordering of the log
\* that keeps the order of equal dates gives the same holdings.
C17_DeterministicReplay ==
  /\ pc # "call" => StableByDate(log, transactions)
  /\ pc = "returned" =>
       \A p \in Perms(Len(log)) :
         KeepsTies(log, p) => ComputeHoldings(Permute(log, p)) = holdings

\* a log passed later date first, with a holding left: the other ordering of
\* it gives the same holding
C17_Witness ==
  /\ pc = "returned"
  /\ Len(log) = 2
  /\ log[1].date > log[2].date
  /\ log[1].side = "SELL" /\ log[2].side = "BUY"
  /\ Upper(log[1].symbol) = Upper(log[2].symbol)
  /\ RLt(log[1].qty, log[2].qty)
  /\ Len(holdings) = 1
  /\ ComputeHoldings(<<log[2], log[1]>>) = holdings

\* two transactions of one date whose order decides the holdings
C17_TieMatters ==
  /\ pc = "returned"
  /\ Len(log) = 2
  /\ log[1].date = log[2].date
  /\ ComputeHoldings(<<log[2], log[1]>>) # holdings

\* the quantity of symbol S the stored transactions of one side add up to
RECURSIVE StoredQty(_, _, _)
StoredQty(txs, S, side) ==
  IF txs = <<>> THEN Zero
  ELSE RAdd(IF Upper(Head(txs).symbol) = S /\ Head(txs).side = side
            THEN Head(txs).qty ELSE Zero,
            StoredQty(Tail(txs), S, side))

PositiveLog == \A j \in 1..Len(txStore) : RLt(Zero, txStore[j].qty)

\* C18: in a store of positive quantities, whose SELLs are all recorded by
\* sellAllAtMarket, no symbol that has purchases in the store has more sold
\* than bought, however the running handlers interleave.
C18_NoOversell ==
  PositiveLog =>
    \A S \in {"AAA", "BBB"} :
      RLt(Zero, StoredQty(txStore, S, "BUY"))
        => RLe(StoredQty(txStore, S, "SELL"), StoredQty(txStore, S, "BUY"))

\* C19: at most one refresh timer is armed at any time.
C19_OneTimer == Cardinality(timers) <= 1

\* the entry of t's symbol before t is replayed
LotBefore(ls, t) == EnsureLot(ls, Upper(t.symbol))[LotIndex(EnsureLot(ls, Upper(t.symbol)), Upper(t.symbol))]

\* no SELL of txs, replayed from ls, exceeds the quantity held at its date
RECURSIVE NoOversell(_, _)
NoOversell(ls, txs) ==
  IF txs = <<>> THEN TRUE
  ELSE /\ Head(txs).side = "SELL" => RLe(Head(txs).qty, LotBefore(ls, Head(txs)).qty)
       /\ NoOversell(FoldStep(ls, Head(txs)), Tail(txs))

\* every transaction of txs, replayed from ls, leaves its symbol with nothing
\* or with at least 1e-9
RECURSIVE NoDust(_, _)
NoDust(ls, txs) ==
  IF txs = <<>> THEN TRUE
  ELSE /\ LET q == NextQty(LotBefore(ls, Head(txs)).qty, Head(txs))
           IN  q = Zero \/ RLe(Tolerance, RAbs(q))
       /\ NoDust(FoldStep(ls, Head(txs)), Tail(txs))

\* sum over the SELLs of qty * (sell price - average cost just before)
RECURSIVE RealisedGain(_, _)
RealisedGain(ls, txs) ==
  IF txs = <<>> THEN Zero
  ELSE LET t == Head(txs)
           l == LotBefore(ls, t)
       IN  RAdd(IF t.side = "SELL" /\ RLt(Zero, l.qty)
                THEN RMul(t.qty, RSub(t.price, RDiv(l.cost, l.qty)))
                ELSE Zero,
                RealisedGain(FoldStep(ls, t), Tail(txs)))

\* sum over the holdings of qty * avgCost
RECURSIVE CostValue(_)
CostValue(hs) ==
  IF hs = <<>> THEN Zero
  ELSE RAdd(RMul(Head(hs).qty, Head(hs).avgCost), CostValue(Tail(hs)))

\* cash + holdings at cost = startingCash + realised gain
Identity ==
  \A cash \in cashResults :
    RAdd(cash, CostValue(holdings)) = RAdd(starting, RealisedGain(<<>>, transactions))

\* the claim as stated: the identity for every log without an oversell
C20_AsStated ==
  (pc = "valued" /\ NoOversell(<<>>, transactions)) => Identity

\* C20: for every log in which no SELL exceeds the quantity held at its date
\* and no transaction leaves a quantity between 0 and 1e-9, the cash plus the
\* holdings at average cost is startingCash plus the sum over the SELLs of
\* qty * (sell price - average cost just before the SELL).
C20_AccountingIdentity ==
  (pc = "valued" /\ NoOversell(<<>>, transactions) /\ NoDust(<<>>, transactions))
    => Identity

\* a BUY of 2 at 2 and the later SELL of 1 at 0: a loss of 2 realised, one
\* share left at cost
C20_Witness ==
  /\ pc = "valued"
  /\ Len(transactions) = 2
  /\ transactions[1].side = "BUY" /\ transactions[1].qty = Int2R(2)
  /\ transactions[1].price = Int2R(2)
  /\ transactions[2].side = "SELL" /\ transactions[2].qty = Int2R(1)
  /\ transactions[2].price = Zero
  /\ Upper(transactions[1].symbol) = Upper(transactions[2].symbol)
  /\ starting = Int2R(100)
  /\ Len(holdings) = 1
  /\ RealisedGain(<<>>, transactions) = Int2R(-2)
  /\ cashResults = {Int2R(96)}

====
